---- MODULE Spec2Model ----
(***************************************************************************)
(* The label verification engine of src/verification.py: the text          *)
(* normaliser, the token window generator, the three match strategies,     *)
(* the cascade, the field verifiers and verify_all.                        *)
(*                                                                         *)
(* A Python str is a sequence of one-character strings.  A call either     *)
(* returns a value or raises; a raised exception is the value Raise(exc).  *)
(* A comment built by an f-string is the sequence of its segments.         *)
(*                                                                         *)
(* With it, the collaborators of the engine: the OCR service of            *)
(* src/ocr_service.py with its result cache, and the /verify handler of    *)
(* src/main.py that calls the service and then the engine.                 *)
(***************************************************************************)
EXTENDS Integers, Sequences, FiniteSets, TLC

VARIABLES
  target,   \* the declared text of the call (target_text, expected)
  source,   \* the text searched (text, source_text, ocr_text)
  input,    \* the VerificationInput of verify_all
  op,       \* "idle" before the call, then the name of the function called
  result,   \* what the call returned or raised
  calls,    \* the functions the call called, in order
  given_length, \* the length given to a window generator
  label_image, \* the file uploaded with the request, None without one
  image,    \* the bytes given to the service, None before a call or a read
  cache,    \* the entries of the service's lru_cache, least recently used first
  backend,  \* how many times the Vision backend was called
  history,  \* the calls of the service so far, in order
  pc        \* the position of the /verify handler

\* the variables of the engine's calls
callVars == <<target, source, input, op, result, calls, given_length>>

\* the variables of the OCR service and of the handler
serviceVars == <<label_image, image, cache, backend, history, pc>>

vars == <<target, source, input, op, result, calls, given_length, label_image,
          image, cache, backend, history, pc>>

----------------------------------------------------------------------------
(* Bounds of the explored inputs.                                          *)

\* longest text given to normalize_text
MaxTextLen == 4

\* longest target and source together given to a strategy or the cascade
MaxLen == 4

\* longest declared field given to verify_all
MaxFieldLen == 1

\* longest short OCR text given to verify_all
MaxOcrLen == 2

----------------------------------------------------------------------------
(* Characters.                                                             *)

UpperLetters ==
  <<"A", "B", "C", "D", "E", "F", "G", "H", "I", "J", "K", "L", "M",
    "N", "O", "P", "Q", "R", "S", "T", "U", "V", "W", "X", "Y", "Z">>

LowerLetters ==
  <<"a", "b", "c", "d", "e", "f", "g", "h", "i", "j", "k", "l", "m",
    "n", "o", "p", "q", "r", "s", "t", "u", "v", "w", "x", "y", "z">>

\* str.strip, str.split and the regex class \s: whitespace
IsSpace(c) == c \in {" ", "\t", "\n"}

\* the regex class [.,\-()_\[\]]
IsPunct(c) == c \in {".", ",", "-", "(", ")", "_", "[", "]"}

IsUpper(c) == \E i \in 1..Len(UpperLetters) : UpperLetters[i] = c

\* str.lower on one character
LowerChar(c) ==
  IF IsUpper(c)
  THEN LowerLetters[CHOOSE i \in 1..Len(UpperLetters) : UpperLetters[i] = c]
  ELSE c

\* Op(v), with v evaluated once however often Op uses it: the binding of a
\* local variable
Let(v, Op(_)) == Op(v)

\* all strings over the characters cs of length at most n
RECURSIVE StringsUpTo(_, _)
StringsUpTo(cs, n) ==
  IF n = 0 THEN {<<>>}
  ELSE LET shorter == StringsUpTo(cs, n - 1)
       IN shorter \cup {Append(s, c) : s \in shorter, c \in cs}

----------------------------------------------------------------------------
(* normalize_text                                                          *)

\* the indices 1..Len(s), in order
Indices(s) == [i \in 1..Len(s) |-> i]

\* str.strip(): drop leading and trailing whitespace
Strip(s) ==
  IF \A i \in 1..Len(s) : IsSpace(s[i]) THEN <<>>
  ELSE LET first == CHOOSE i \in 1..Len(s) :
                      ~IsSpace(s[i]) /\ \A j \in 1..(i - 1) : IsSpace(s[j])
           last == CHOOSE i \in 1..Len(s) :
                     ~IsSpace(s[i]) /\ \A j \in (i + 1)..Len(s) : IsSpace(s[j])
       IN SubSeq(s, first, last)

\* str.lower()
ToLower(s) == <<>> \o [i \in 1..Len(s) |-> LowerChar(s[i])]

\* regex.sub(r"[.,\-()_\[\]]", " ", text): each punctuation character
\* becomes one space
SubPunct(s) == <<>> \o [i \in 1..Len(s) |-> IF IsPunct(s[i]) THEN " " ELSE s[i]]

\* regex.sub(r"\s+", " ", text): each maximal run of whitespace becomes one
\* space (the run's first character is kept, as a space; its others go)
SubSpaces(s) ==
  Let(SelectSeq(Indices(s), LAMBDA i : ~IsSpace(s[i]) \/ i = 1 \/ ~IsSpace(s[i - 1])),
      LAMBDA kept :
        <<>> \o [k \in 1..Len(kept) |-> IF IsSpace(s[kept[k]]) THEN " " ELSE s[kept[k]]])

normalize_text(text) == SubSpaces(SubPunct(ToLower(Strip(text))))

----------------------------------------------------------------------------
(* substrings_by_similar_character_length                                  *)

\* the windows of one size: string[i:i+length] for i in range(N - length + 1)
SlicesOfLength(string, length) ==
  <<>> \o [i \in 1..(Len(string) - length + 1) |-> SubSeq(string, i, i + length - 1)]

\* the sizes range(character_length - 1, character_length + 2), from k on
RECURSIVE SlicesFrom(_, _, _)
SlicesFrom(string, character_length, k) ==
  IF k > character_length + 1 THEN <<>>
  ELSE (IF k > 0 /\ k < Len(string) THEN SlicesOfLength(string, k) ELSE <<>>)
       \o SlicesFrom(string, character_length, k + 1)

substrings_by_similar_character_length(string, character_length) ==
  SlicesFrom(string, character_length, character_length - 1)

----------------------------------------------------------------------------
(* substrings_by_similar_token_length                                      *)

\* str.split(): the maximal runs of non-whitespace characters
TokenSpans(s, starts, ends) ==
  <<>> \o [k \in 1..Len(starts) |-> SubSeq(s, starts[k], ends[k])]

Split(s) ==
  TokenSpans(s,
    SelectSeq(Indices(s), LAMBDA i : ~IsSpace(s[i]) /\ (i = 1 \/ IsSpace(s[i - 1]))),
    SelectSeq(Indices(s), LAMBDA i : ~IsSpace(s[i]) /\ (i = Len(s) \/ IsSpace(s[i + 1]))))

\* " ".join(tokens)
RECURSIVE Join(_)
Join(tokens) ==
  IF Len(tokens) = 0 THEN <<>>
  ELSE IF Len(tokens) = 1 THEN tokens[1]
  ELSE LET half == Len(tokens) \div 2
       IN Join(SubSeq(tokens, 1, half)) \o <<" ">>
            \o Join(SubSeq(tokens, half + 1, Len(tokens)))

\* the windows of one size but the last of them
WindowsOfLength_without_last(tokens, length) ==
  <<>> \o [i \in 1..(Len(tokens) - length) |-> Join(SubSeq(tokens, i, i + length - 1))]

\* the windows of one size: tokens[i:i+length] for i in range(N - length + 1)
WindowsOfLength(tokens, length) ==
  <<>> \o [i \in 1..(Len(tokens) - length + 1) |-> Join(SubSeq(tokens, i, i + length - 1))]

\* the sizes range(token_length - 1, token_length + 2), from index k on
RECURSIVE WindowsFrom(_, _, _)
WindowsFrom(tokens, token_length, k) ==
  IF k > token_length + 1 THEN <<>>
  ELSE (IF k > 0 /\ k < Len(tokens) THEN WindowsOfLength(tokens, k) ELSE <<>>)
       \o WindowsFrom(tokens, token_length, k + 1)

substrings_by_similar_token_length(string, token_length) ==
  WindowsFrom(Split(string), token_length, token_length - 1)

----------------------------------------------------------------------------
(* rapidfuzz: fuzz.ratio and process.extract(..., limit=1)                 *)

Max(a, b) == IF a >= b THEN a ELSE b

\* one row of the longest-common-subsequence table from the row before:
\* row[j + 1] is the LCS length of the characters of a read so far and
\* b[1..j].  With c the character of a just read, it is the larger of
\* prev[j + 1] and, if c occurs in b[1..j], 1 + prev[k] for its last
\* occurrence b[k].
LcsRow(prev, c, b) ==
  <<>> \o [j1 \in 1..(Len(b) + 1) |->
             IF \E k \in 1..(j1 - 1) : b[k] = c
             THEN LET last == CHOOSE k \in 1..(j1 - 1) :
                                b[k] = c /\ \A k2 \in (k + 1)..(j1 - 1) : b[k2] # c
                  IN Max(prev[j1], prev[last] + 1)
             ELSE prev[j1]]

\* the row after reading a[lo..hi], from the row prev before them: the first
\* half of the characters, then the second half from the row that gives
RECURSIVE LcsRows(_, _, _, _, _)
LcsRows(a, b, lo, hi, prev) ==
  IF lo > hi THEN prev
  ELSE IF lo = hi THEN LcsRow(prev, a[lo], b)
  ELSE Let(LcsRows(a, b, lo, (lo + hi) \div 2, prev),
           LAMBDA row :
             IF Len(row) > 0 THEN LcsRows(a, b, (lo + hi) \div 2 + 1, hi, row)
             ELSE row)

Lcs(a, b) ==
  LcsRows(a, b, 1, Len(a), <<>> \o [j \in 1..(Len(b) + 1) |-> 0])[Len(b) + 1]

\* round(n / d, 0) of Python: to the nearest integer, a tie to the even one
RoundHalfEven(n, d) ==
  LET q == n \div d
      r == n % d
  IN IF 2 * r < d THEN q
     ELSE IF 2 * r > d THEN q + 1
     ELSE IF q % 2 = 0 THEN q ELSE q + 1

\* round(fuzz.ratio(a, b), 1) in tenths of a percent: the ratio is
\* 100 * 2 * LCS / (len(a) + len(b)), and 100 for two empty strings
RatioTenths(a, b) ==
  IF Len(a) + Len(b) = 0 THEN 1000
  ELSE RoundHalfEven(2000 * Lcs(a, b), Len(a) + Len(b))

\* process.extract(query, choices, limit=1, scorer=fuzz.ratio): the empty
\* list for no choices, else the one choice of the highest score, the first
\* of them in the order of choices
extract(query, choices) ==
  IF Len(choices) = 0 THEN <<>>
  ELSE Let(<<>> \o [i \in 1..Len(choices) |-> RatioTenths(query, choices[i])],
           LAMBDA scores :
             Let(CHOOSE i \in 1..Len(choices) :
                   /\ \A j \in 1..Len(choices) : scores[j] <= scores[i]
                   /\ \A j \in 1..(i - 1) : scores[j] < scores[i],
                 LAMBDA best : <<[text |-> choices[best], ratio |-> scores[best]]>>))

----------------------------------------------------------------------------
(* regex.search(fr"(?<=^|\s){pattern}(?=$|\s)", string)                    *)
(*                                                                         *)
(* The pattern is pasted into the expression unescaped.  Modelled for      *)
(* patterns over letters, digits, whitespace, "%", ",", "/", ":" (each     *)
(* matches itself), "." (any character but a newline), "$" (the end of     *)
(* the string, or before its final newline) and "(" (with no ")" to close  *)
(* it the expression does not compile: regex.error).                       *)

Compiles(pattern) == \A i \in 1..Len(pattern) : pattern[i] # "("

\* $ at position j (j characters consumed)
AtEnd(string, j) ==
  \/ j = Len(string)
  \/ j = Len(string) - 1 /\ string[Len(string)] = "\n"

\* (?<=^|\s)
LookBehind(string, j) == j = 0 \/ IsSpace(string[j])

\* (?=$|\s)
LookAhead(string, j) == AtEnd(string, j) \/ (j < Len(string) /\ IsSpace(string[j + 1]))

\* the characters of the string the pattern's first i elements consume: each
\* element one, but "$" none
Consumed(pattern, i) == Cardinality({k \in 1..i : pattern[k] # "$"})

\* the pattern and the lookahead match with the pattern starting at
\* position j: no element of such a pattern leaves a choice
MatchFrom(pattern, string, j) ==
  /\ \A i \in 1..Len(pattern) :
       LET at == j + Consumed(pattern, i - 1)
       IN IF pattern[i] = "$" THEN AtEnd(string, at)
          ELSE /\ at < Len(string)
               /\ IF pattern[i] = "." THEN string[at + 1] # "\n"
                  ELSE string[at + 1] = pattern[i]
  /\ LookAhead(string, j + Consumed(pattern, Len(pattern)))

\* regex.search(...) is not None
BoundedSearch(pattern, string) ==
  \E j \in 0..Len(string) : LookBehind(string, j) /\ MatchFrom(pattern, string, j)

----------------------------------------------------------------------------
(* VerificationResult and the three strategies                             *)

VerificationResult(match, expected, comment) ==
  [kind |-> "result", match |-> match, expected |-> expected, comment |-> comment]

Raise(exc) == [kind |-> "raise", exc |-> exc]

Returned(r) == r.kind = "result"

\* Python's None
None == [kind |-> "none"]

Raised(r) == r.kind = "raise"

FUZZY_THRESHOLD == 920

EmptyResult(target_text) == VerificationResult(FALSE, target_text, <<"Target text is empty">>)

check_exact(target_text, source_text) ==
  IF target_text = <<>> \/ source_text = <<>> THEN EmptyResult(target_text)
  ELSE IF ~Compiles(target_text) THEN Raise("regex.error")
  ELSE Let(BoundedSearch(target_text, source_text),
           LAMBDA match :
             VerificationResult(match, target_text,
                                IF match THEN <<"Exact match">> ELSE <<"No match">>))

NormalizedSearch(target_text, target_text_norm, source_text_norm) ==
  IF ~Compiles(target_text_norm) THEN Raise("regex.error")
  ELSE Let(BoundedSearch(target_text_norm, source_text_norm),
           LAMBDA match :
             VerificationResult(match, target_text,
               IF match THEN <<"Normalized text match">> ELSE <<"No match">>))

check_normalized(target_text, source_text) ==
  IF target_text = <<>> \/ source_text = <<>> THEN EmptyResult(target_text)
  ELSE NormalizedSearch(target_text, normalize_text(target_text),
                        normalize_text(source_text))

\* lines 153-160: the result for the best candidate found
FuzzyResult(target_text, best_text, best_ratio) ==
  Let(best_ratio >= FUZZY_THRESHOLD,
      LAMBDA match :
        VerificationResult(match, target_text,
          IF match
          THEN <<"Fuzzy match: '", best_text, "' (", best_ratio, "%)">>
          ELSE <<"No match. Closest text: '", best_text, "' (", best_ratio, "%)">>))

\* lines 148-152: process.extract(...)[0], which raises IndexError on the
\* empty list
FuzzySearch(target_text, target_text_norm, source_text_norm) ==
  Let(extract(target_text_norm,
              substrings_by_similar_token_length(
                source_text_norm, Len(Split(target_text_norm)))),
      LAMBDA found :
        IF Len(found) = 0 THEN Raise("IndexError")
        ELSE FuzzyResult(target_text, found[1].text, found[1].ratio))

check_fuzzy(target_text, source_text) ==
  IF target_text = <<>> \/ source_text = <<>> THEN EmptyResult(target_text)
  ELSE FuzzySearch(target_text, normalize_text(target_text),
                   normalize_text(source_text))

----------------------------------------------------------------------------
(* check_matches_cascade                                                   *)

\* the strategies with the first two in the other order
STRATEGIES_normalized_first == <<"check_normalized", "check_exact", "check_fuzzy">>

STRATEGIES == <<"check_exact", "check_normalized", "check_fuzzy">>

Strategy(check_func, target_text, source_text) ==
  CASE check_func = "check_exact" -> check_exact(target_text, source_text)
    [] check_func = "check_normalized" -> check_normalized(target_text, source_text)
    [] check_func = "check_fuzzy" -> check_fuzzy(target_text, source_text)

\* the loop over the strategies from the i-th on: the result returned (or
\* the exception raised) and the strategies called
RECURSIVE RunStrategies(_, _, _, _)
RunStrategies(order, target_text, source_text, i) ==
  Let(Strategy(order[i], target_text, source_text),
      LAMBDA r :
        IF Raised(r) \/ i = Len(order) THEN [result |-> r, calls |-> <<order[i]>>]
        ELSE IF r.match THEN [result |-> r, calls |-> <<order[i]>>]
        ELSE Let(RunStrategies(order, target_text, source_text, i + 1),
                 LAMBDA rest :
                   [result |-> rest.result, calls |-> <<order[i]>> \o rest.calls]))

\* the loop returning the first strategy's result when none matched, not the
\* last one's
CascadeRun_returns_first_result(target_text, source_text) ==
  IF target_text = <<>> \/ source_text = <<>>
  THEN [result |-> EmptyResult(target_text), calls |-> <<>>]
  ELSE Let(RunStrategies(STRATEGIES, target_text, source_text, 1),
           LAMBDA run :
             IF Returned(run.result) /\ ~run.result.match
             THEN [result |-> Strategy(STRATEGIES[1], target_text, source_text),
                   calls |-> run.calls]
             ELSE run)

\* the guard of the cascade looking at the target only
CascadeRun_guards_target_only(target_text, source_text) ==
  IF target_text = <<>>
  THEN [result |-> EmptyResult(target_text), calls |-> <<>>]
  ELSE RunStrategies(STRATEGIES, target_text, source_text, 1)

CascadeRun(target_text, source_text) ==
  IF target_text = <<>> \/ source_text = <<>>
  THEN [result |-> EmptyResult(target_text), calls |-> <<>>]
  ELSE RunStrategies(STRATEGIES, target_text, source_text, 1)

check_matches_cascade(target_text, source_text) ==
  CascadeRun(target_text, source_text).result

----------------------------------------------------------------------------
(* The field verifiers and verify_all                                      *)

verify_brand(expected, ocr_text) == check_matches_cascade(expected, ocr_text)

verify_product_type(expected, ocr_text) == check_matches_cascade(expected, ocr_text)

verify_abv(expected, ocr_text) == check_matches_cascade(expected \o <<"%">>, ocr_text)

verify_volume(expected, ocr_text) == check_matches_cascade(expected, ocr_text)

title_text ==
  <<"G", "O", "V", "E", "R", "N", "M", "E", "N", "T", " ", "W", "A", "R", "N", "I", "N",
    "G">>

pregnancy_text ==
  <<"A", "c", "c", "o", "r", "d", "i", "n", "g", " ", "t", "o", " ", "t", "h", "e", " ",
    "S", "u", "r", "g", "e", "o", "n", " ", "G", "e", "n", "e", "r", "a", "l", ",", " ",
    "w", "o", "m", "e", "n", " ", "s", "h", "o", "u", "l", "d", " ", "n", "o", "t", " ",
    "d", "r", "i", "n", "k", " ", "a", "l", "c", "o", "h", "o", "l", "i", "c", " ", "b",
    "e", "v", "e", "r", "a", "g", "e", "s", " ", "d", "u", "r", "i", "n", "g", " ", "p",
    "r", "e", "g", "n", "a", "n", "c", "y", " ", "b", "e", "c", "a", "u", "s", "e", " ",
    "o", "f", " ", "t", "h", "e", " ", "r", "i", "s", "k", " ", "o", "f", " ", "b", "i",
    "r", "t", "h", " ", "d", "e", "f", "e", "c", "t", "s">>

drive_health_text ==
  <<"C", "o", "n", "s", "u", "m", "p", "t", "i", "o", "n", " ", "o", "f", " ", "a", "l",
    "c", "o", "h", "o", "l", "i", "c", " ", "b", "e", "v", "e", "r", "a", "g", "e", "s",
    " ", "i", "m", "p", "a", "i", "r", "s", " ", "y", "o", "u", "r", " ", "a", "b", "i",
    "l", "i", "t", "y", " ", "t", "o", " ", "d", "r", "i", "v", "e", " ", "a", " ", "c",
    "a", "r", " ", "o", "r", " ", "o", "p", "e", "r", "a", "t", "e", " ", "m", "a", "c",
    "h", "i", "n", "e", "r", "y", ",", " ", "a", "n", "d", " ", "m", "a", "y", " ", "c",
    "a", "u", "s", "e", " ", "h", "e", "a", "l", "t", "h", " ", "p", "r", "o", "b", "l",
    "e", "m", "s">>

\* "\n".join(texts)
RECURSIVE JoinLines(_)
JoinLines(texts) ==
  IF Len(texts) = 0 THEN <<>>
  ELSE IF Len(texts) = 1 THEN texts[1]
  ELSE texts[1] \o <<"\n">> \o JoinLines(Tail(texts))

\* the first exception among the results, in call order: the one that
\* leaves the function
FirstRaised(results) ==
  results[CHOOSE i \in 1..Len(results) :
            Raised(results[i]) /\ \A j \in 1..(i - 1) : ~Raised(results[j])]

\* [result.expected for result in results if not result.match]
RECURSIVE NotMatched(_)
NotMatched(results) ==
  IF Len(results) = 0 THEN <<>>
  ELSE (IF results[1].match THEN <<>> ELSE <<results[1].expected>>)
       \o NotMatched(Tail(results))

\* lines 260-268: the result collated from the three sections' results
GovWarningResult(results) ==
  IF \E i \in 1..Len(results) : Raised(results[i]) THEN FirstRaised(results)
  ELSE Let(\A i \in 1..Len(results) : results[i].match,
           LAMBDA all_matched :
             VerificationResult(
               all_matched,
               JoinLines([i \in 1..Len(results) |-> results[i].expected]),
               IF all_matched THEN <<"Full government warning found">>
               ELSE <<"Sections not found: ", JoinLines(NotMatched(results))>>))

verify_gov_warning(ocr_text) ==
  GovWarningResult(<<check_matches_cascade(title_text, ocr_text),
                     check_matches_cascade(pregnancy_text, ocr_text),
                     check_matches_cascade(drive_health_text, ocr_text)>>)

RESULT_KEYS == <<"brand_name", "product_type", "abv", "volume", "warning">>

\* lines 288-294: the mapping returned, unless a verifier raised
ResultMapping(results) ==
  IF \E i \in 1..Len(results) : Raised(results[i]) THEN FirstRaised(results)
  ELSE [kind |-> "mapping",
        entries |-> [k \in {RESULT_KEYS[i] : i \in 1..Len(RESULT_KEYS)} |->
                       results[CHOOSE i \in 1..Len(RESULT_KEYS) : RESULT_KEYS[i] = k]]]

VerifyFields(input_data, ocr_text_norm) ==
  ResultMapping(<<verify_brand(input_data.brand_name, ocr_text_norm),
                  verify_product_type(input_data.product_type, ocr_text_norm),
                  verify_abv(input_data.abv, ocr_text_norm),
                  verify_volume(input_data.volume, ocr_text_norm),
                  verify_gov_warning(ocr_text_norm)>>)

verify_all(input_data, ocr_text) == VerifyFields(input_data, normalize_text(ocr_text))

----------------------------------------------------------------------------
(* LabelOCRService.extract_text_from_image under functools.lru_cache       *)
(*                                                                         *)
(* Image bytes are sequences of byte values.  What the Vision backend does *)
(* when called is either a response, with its error and its text           *)
(* annotations, or an exception of the client.                             *)

CACHE_MAXSIZE == 100

\* a str returned by the service
Text(s) == [kind |-> "text", text |-> s]

\* response.error with its message
Status(message) == [kind |-> "status", message |-> message]

Response(error, text_annotations) ==
  [kind |-> "response", error |-> error, text_annotations |-> text_annotations]

\* an exception raised with a message
RaiseWith(exc, message) == [kind |-> "raise", exc |-> exc, message |-> message]

\* response.error and response.error.message
HasErrorMessage(response) ==
  response.error.kind = "status" /\ response.error.message # ""

\* lines 84-97 with an error response giving None, as a response without
\* annotations does
extract_text_from_image_body_error_as_none(image_bytes, response) ==
  IF image_bytes = <<>> THEN None
  ELSE IF Raised(response) THEN response
  ELSE IF HasErrorMessage(response) \/ response.text_annotations = <<>> THEN None
  ELSE Text(Strip(response.text_annotations[1]))

\* lines 84-97: the body of extract_text_from_image, with what the call
\* self.client.text_detection(image=image) does if the body makes it
extract_text_from_image_body(image_bytes, response) ==
  IF image_bytes = <<>> THEN None
  ELSE IF Raised(response) THEN response
  ELSE IF HasErrorMessage(response)
    THEN RaiseWith("RuntimeError", <<"Vision API error: ", response.error.message>>)
  ELSE IF response.text_annotations = <<>> THEN None
  ELSE Text(Strip(response.text_annotations[1]))

\* a key that is a summary of the bytes: their number
CacheKey_length(image_bytes) == Len(image_bytes)

\* the key of lru_cache: the arguments of the call, on one service the bytes
CacheKey(image_bytes) == image_bytes

\* the position of the key's entry, 0 if it has none
Find(entries, key) ==
  IF \E i \in 1..Len(entries) : entries[i].key = key
  THEN CHOOSE i \in 1..Len(entries) : entries[i].key = key
  ELSE 0

\* the entries but the one at a position
Without(entries, at) ==
  <<>> \o [i \in 1..(Len(entries) - 1) |-> IF i < at THEN entries[i] ELSE entries[i + 1]]

\* a miss: the body runs; what it returns is stored as the most recently
\* used entry, in place of the least recently used one if the cache is full;
\* what it raises is stored nowhere
Missed(entries, key, image_bytes, value) ==
  [outcome |-> value,
   entries |-> IF Raised(value) THEN entries
               ELSE (IF Len(entries) >= CACHE_MAXSIZE THEN Tail(entries) ELSE entries)
                      \o <<[key |-> key, value |-> value]>>,
   called |-> image_bytes # <<>>]

\* a hit: the stored value, its entry now the most recently used
Hit(entries, at) ==
  [outcome |-> entries[at].value,
   entries |-> Without(entries, at) \o <<entries[at]>>,
   called |-> FALSE]

\* line 73: @lru_cache(maxsize=100) around the body: the outcome of the call,
\* the entries after it, and whether the backend was called
extract_text_from_image(entries, image_bytes, response) ==
  Let(Find(entries, CacheKey(image_bytes)),
      LAMBDA at :
        IF at > 0 THEN Hit(entries, at)
        ELSE Missed(entries, CacheKey(image_bytes), image_bytes,
                    extract_text_from_image_body(image_bytes, response)))

----------------------------------------------------------------------------
(* Inputs and calls.                                                       *)

NoInput == [brand_name |-> <<>>, product_type |-> <<>>, abv |-> <<>>, volume |-> <<>>]

\* the service as constructed, and no request
NoService ==
  /\ label_image = None
  /\ image = None
  /\ cache = <<>>
  /\ backend = 0
  /\ history = <<>>
  /\ pc = "idle"

TextChars == {"a", "A", " ", "\t", ".", "-"}

Sample_AlcVol ==
  <<"4", "5", "%", " ", "A", "l", "c", ".", "/", "V", "o", "l", ".", " ", "(", "9", "0",
    " ", "P", "r", "o", "o", "f", ")">>

Texts == StringsUpTo(TextChars, MaxTextLen) \cup {Sample_AlcVol}

InitText ==
  /\ source \in Texts
  /\ target = <<>>
  /\ input = NoInput
  /\ op = "idle"
  /\ result = None
  /\ calls = <<>>
  /\ given_length = 0
  /\ NoService

NormalizeText ==
  /\ op = "idle"
  /\ op' = "normalize_text"
  /\ result' = normalize_text(source)
  /\ UNCHANGED <<target, source, input, calls, given_length>>
  /\ UNCHANGED serviceVars

NextText == NormalizeText

SpecText == InitText /\ [][NextText]_vars

----------------------------------------------------------------------------
(* The strategies and the cascade on one target and one source.            *)

MatchChars == {"a", "A", " ", ".", "(", "$"}

Sample_OldTomDistillery ==
  <<"O", "l", "d", " ", "T", "o", "m", " ", "D", "i", "s", "t", "i", "l", "l", "e", "r",
    "y">>

Sample_OldTomDistilery ==
  <<"O", "L", "D", " ", "T", "O", "M", " ", "D", "I", "S", "T", "I", "L", "E", "R", "Y">>

Sample_OldTomBourbon ==
  <<"O", "L", "D", " ", "T", "O", "M", " ", "D", "I", "S", "T", "I", "L", "E", "R", "Y",
    " ", "B", "o", "u", "r", "b", "o", "n", " ", "W", "h", "i", "s", "k", "e", "y">>

SamplePairs ==
  { <<Sample_OldTomDistillery, Sample_OldTomBourbon>>,
    <<Sample_OldTomDistillery, Sample_OldTomDistilery>> }

MatchPairs ==
  { <<t, s>> \in StringsUpTo(MatchChars, MaxLen) \X StringsUpTo(MatchChars, MaxLen) :
      Len(t) + Len(s) <= MaxLen } \cup SamplePairs

Init ==
  /\ \E p \in MatchPairs : target = p[1] /\ source = p[2]
  /\ input = NoInput
  /\ op = "idle"
  /\ result = None
  /\ calls = <<>>
  /\ given_length = 0
  /\ NoService

Call(name, value) ==
  /\ op = "idle"
  /\ op' = name
  /\ result' = value
  /\ UNCHANGED <<target, source, input, given_length>>
  /\ UNCHANGED serviceVars

CheckExact == Call("check_exact", check_exact(target, source)) /\ UNCHANGED calls

CheckNormalized ==
  Call("check_normalized", check_normalized(target, source)) /\ UNCHANGED calls

CheckFuzzy == Call("check_fuzzy", check_fuzzy(target, source)) /\ UNCHANGED calls

CheckMatchesCascade ==
  /\ Call("check_matches_cascade", CascadeRun(target, source).result)
  /\ calls' = CascadeRun(target, source).calls

Next == CheckExact \/ CheckNormalized \/ CheckFuzzy \/ CheckMatchesCascade

Spec == Init /\ [][Next]_vars

----------------------------------------------------------------------------
(* verify_all on one VerificationInput and one OCR text.                   *)

FieldChars == {"a", "5"}

OcrChars == {"a", "5", "%", " "}

Sample_WarningLabel ==
  <<"4", "5", "%", " ", "A", "l", "c", ".", "/", "V", "o", "l", ".", " ", "G", "O", "V",
    "E", "R", "N", "M", "E", "N", "T", " ", "W", "A", "R", "N", "I", "N", "G", " ", "(",
    "1", ")", " ", "A", "c", "c", "o", "r", "d", "i", "n", "g", " ", "t", "o", " ", "t",
    "h", "e", " ", "S", "u", "r", "g", "e", "o", "n", " ", "G", "e", "n", "e", "r", "a",
    "l", ",", " ", "w", "o", "m", "e", "n", " ", "s", "h", "o", "u", "l", "d", " ", "n",
    "o", "t", " ", "d", "r", "i", "n", "k", " ", "a", "l", "c", "o", "h", "o", "l", "i",
    "c", " ", "b", "e", "v", "e", "r", "a", "g", "e", "s", " ", "d", "u", "r", "i", "n",
    "g", " ", "p", "r", "e", "g", "n", "a", "n", "c", "y", " ", "b", "e", "c", "a", "u",
    "s", "e", " ", "o", "f", " ", "t", "h", "e", " ", "r", "i", "s", "k", " ", "o", "f",
    " ", "b", "i", "r", "t", "h", " ", "d", "e", "f", "e", "c", "t", "s", ".", " ", "(",
    "2", ")", " ", "C", "o", "n", "s", "u", "m", "p", "t", "i", "o", "n", " ", "o", "f",
    " ", "a", "l", "c", "o", "h", "o", "l", "i", "c", " ", "b", "e", "v", "e", "r", "a",
    "g", "e", "s", " ", "i", "m", "p", "a", "i", "r", "s", " ", "y", "o", "u", "r", " ",
    "a", "b", "i", "l", "i", "t", "y", " ", "t", "o", " ", "d", "r", "i", "v", "e", " ",
    "a", " ", "c", "a", "r", " ", "o", "r", " ", "o", "p", "e", "r", "a", "t", "e", " ",
    "m", "a", "c", "h", "i", "n", "e", "r", "y", ",", " ", "a", "n", "d", " ", "m", "a",
    "y", " ", "c", "a", "u", "s", "e", " ", "h", "e", "a", "l", "t", "h", " ", "p", "r",
    "o", "b", "l", "e", "m", "s", ".">>

Inputs ==
  LET fields == StringsUpTo(FieldChars, MaxFieldLen)
  IN [brand_name : fields, product_type : fields, abv : fields, volume : fields]

OcrTexts == StringsUpTo(OcrChars, MaxOcrLen) \cup {Sample_WarningLabel}

InitVerify ==
  /\ input \in Inputs
  /\ source \in OcrTexts
  /\ target = <<>>
  /\ op = "idle"
  /\ result = None
  /\ calls = <<>>
  /\ given_length = 0
  /\ NoService

VerifyAll == Call("verify_all", verify_all(input, source)) /\ UNCHANGED calls

NextVerify == VerifyAll

SpecVerify == InitVerify /\ [][NextVerify]_vars

----------------------------------------------------------------------------
(* The field verifiers on one declared value and one label text.           *)

\* longest declared value given to a field verifier
MaxValueLen == 2

\* longest short label text given to a field verifier
MaxLabelLen == 3

ValueChars == {"5", "1", "m"}

LabelChars == {"5", "1", "m", "M", "%", " "}

Sample_AbvValue ==
  <<"1", "3", ".", "5">>

Sample_AbvLabel ==
  <<"T", "h", "i", "s", " ", "l", "a", "b", "e", "l", " ", "i", "n", "c", "l", "u", "d",
    "e", "s", " ", "1", "3", ".", "5", "%", " ", "a", "l", "c", " ", "b", "y", " ", "v",
    "o", "l", "u", "m", "e">>

Sample_LongAbvValue ==
  <<"1", "2", ".", "3", "4", "5">>

Sample_BareAbvLabel ==
  <<"a", "b", "v", " ", "1", "2", ".", "3", "4", "5", " ", "p", "r", "o", "o", "f">>

Sample_750ml ==
  <<"7", "5", "0", " ", "m", "l">>

Sample_750ml_spaced ==
  <<"7", "5", "0", " ", " ", "m", "l">>

Sample_700ml ==
  <<"7", "0", "0", " ", "m", "l">>

Sample_75ml ==
  <<"7", "5", " ", "m", "l">>

Sample_50ml ==
  <<"5", "0", " ", "m", "l">>

Sample_7500ml ==
  <<"7", "5", "0", "0", " ", "m", "l">>

Sample_12_4floz ==
  <<"1", "2", ".", "4", " ", "f", "l", " ", "o", "z">>

Sample_124floz ==
  <<"1", "2", "4", " ", "f", "l", " ", "o", "z">>

Sample_Label750mL ==
  <<"1", "0", "%", " ", "A", "B", "V", " ", "7", "5", "0", " ", "m", "L", " ", "v", "o",
    "l", "u", "m", "e">>

Sample_Label750ML ==
  <<"1", "0", "%", " ", "A", "B", "V", " ", "7", "5", "0", " ", "M", "L", " ", "v", "o",
    "l", "u", "m", "e">>

Sample_Label750ml ==
  <<"1", "0", "%", " ", "A", "B", "V", " ", "7", "5", "0", " ", "m", "l", " ", "v", "o",
    "l", "u", "m", "e">>

Sample_Label124floz ==
  <<"1", "0", "%", " ", "A", "B", "V", " ", "1", "2", "4", " ", "f", "l", " ", "o", "z",
    " ", "v", "o", "l", "u", "m", "e">>

Sample_Label12_4floz ==
  <<"1", "0", "%", " ", "A", "B", "V", " ", "1", "2", ".", "4", " ", "f", "l", " ", "o",
    "z", " ", "v", "o", "l", "u", "m", "e">>

Sample_PartialWarning ==
  <<"G", "O", "V", "E", "R", "N", "M", "E", "N", "T", " ", "W", "A", "R", "N", "I", "N",
    "G", ":", " ", "A", "c", "c", "o", "r", "d", "i", "n", "g", " ", "t", "o", " ", "t",
    "h", "e", " ", "S", "u", "r", "g", "e", "o", "n", " ", "G", "e", "n", "e", "r", "a",
    "l", ",", " ", "w", "o", "m", "e", "n", " ", "s", "h", "o", "u", "l", "d", " ", "n",
    "o", "t", " ", "d", "r", "i", "n", "k", " ", "a", "l", "c", "o", "h", "o", "l", "i",
    "c", " ", "b", "e", "v", "e", "r", "a", "g", "e", "s", " ", "d", "u", "r", "i", "n",
    "g", " ", "p", "r", "e", "g", "n", "a", "n", "c", "y", " ", "b", "e", "c", "a", "u",
    "s", "e", " ", "o", "f", " ", "t", "h", "e", " ", "r", "i", "s", "k", " ", "o", "f",
    " ", "b", "i", "r", "t", "h", " ", "d", "e", "f", "e", "c", "t", "s", ".">>

\* the declared values and label texts of the tests, and a value of six
\* characters on a label that prints it without a percent sign
FieldSamples ==
  { <<Sample_AbvValue, normalize_text(Sample_AbvLabel)>>,
    <<Sample_LongAbvValue, Sample_BareAbvLabel>>,
    <<Sample_750ml, Sample_Label750mL>>,
    <<Sample_750ml, Sample_Label750ML>>,
    <<Sample_750ml_spaced, Sample_Label750ml>>,
    <<Sample_700ml, Sample_Label750ml>>,
    <<Sample_75ml, Sample_Label750ml>>,
    <<Sample_50ml, Sample_Label750ml>>,
    <<Sample_7500ml, Sample_Label750ml>>,
    <<Sample_12_4floz, Sample_Label124floz>>,
    <<Sample_124floz, Sample_Label12_4floz>>,
    <<<<>>, normalize_text(Sample_PartialWarning)>>,
    <<<<>>, pregnancy_text>>,
    <<<<>>, Sample_WarningLabel>> }

FieldPairs ==
  (StringsUpTo(ValueChars, MaxValueLen) \X StringsUpTo(LabelChars, MaxLabelLen))
    \cup FieldSamples

InitFields ==
  /\ \E p \in FieldPairs : target = p[1] /\ source = p[2]
  /\ input = NoInput
  /\ op = "idle"
  /\ result = None
  /\ calls = <<>>
  /\ given_length = 0
  /\ NoService

VerifyBrand == Call("verify_brand", verify_brand(target, source)) /\ UNCHANGED calls

VerifyProductType ==
  Call("verify_product_type", verify_product_type(target, source)) /\ UNCHANGED calls

VerifyAbv == Call("verify_abv", verify_abv(target, source)) /\ UNCHANGED calls

VerifyVolume == Call("verify_volume", verify_volume(target, source)) /\ UNCHANGED calls

VerifyGovWarning ==
  Call("verify_gov_warning", verify_gov_warning(source)) /\ UNCHANGED calls

NextFields ==
  VerifyBrand \/ VerifyProductType \/ VerifyAbv \/ VerifyVolume \/ VerifyGovWarning

SpecFields == InitFields /\ [][NextFields]_vars

----------------------------------------------------------------------------
(* The window generators on one string and one length.                     *)

\* longest string given to a window generator
MaxWindowTextLen == 5

\* largest length given to a window generator
MaxGivenLength == 3

WindowChars == {"a", "b", " "}

InitWindows ==
  /\ source \in StringsUpTo(WindowChars, MaxWindowTextLen)
  /\ given_length \in (0 - 1)..MaxGivenLength
  /\ target = <<>>
  /\ input = NoInput
  /\ op = "idle"
  /\ result = None
  /\ calls = <<>>
  /\ NoService

SubstringsByTokenLength ==
  /\ Call("substrings_by_similar_token_length",
          substrings_by_similar_token_length(source, given_length))
  /\ UNCHANGED calls

SubstringsByCharacterLength ==
  /\ Call("substrings_by_similar_character_length",
          substrings_by_similar_character_length(source, given_length))
  /\ UNCHANGED calls

NextWindows == SubstringsByTokenLength \/ SubstringsByCharacterLength

SpecWindows == InitWindows /\ [][NextWindows]_vars

----------------------------------------------------------------------------
(* Calls of extract_text_from_image on one service.                        *)

\* largest byte value of the images given to the service
MaxByte == 2

\* most calls of the service
MaxCalls == 2

Images == {<<>>} \cup {<<b>> : b \in 1..MaxByte}

\* the full text with its newline, then a segment
Annotations_a == << <<"a", "\n">>, <<"a">> >>

\* a text of whitespace only
Annotations_blank == << <<" ">> >>

Responses ==
  { Response(error, text_annotations) :
      error \in {None, Status(""), Status("quota exceeded")},
      text_annotations \in {<<>>, Annotations_a, Annotations_blank} }
    \cup {RaiseWith("ServiceUnavailable", <<"503">>)}

InitOcr ==
  /\ target = <<>>
  /\ source = <<>>
  /\ input = NoInput
  /\ op = "idle"
  /\ result = None
  /\ calls = <<>>
  /\ given_length = 0
  /\ NoService

\* one call of the service: what the caller gets, the cache after it, the
\* backend called or not
ServiceCall(call, image_bytes, response) ==
  /\ image' = image_bytes
  /\ result' = call.outcome
  /\ cache' = call.entries
  /\ backend' = backend + (IF call.called THEN 1 ELSE 0)
  /\ history' = Append(history,
                  [image |-> image_bytes,
                   response |-> IF call.called THEN response ELSE None,
                   outcome |-> call.outcome,
                   called |-> call.called])

ExtractTextFromImage(image_bytes, response) ==
  /\ op' = "extract_text_from_image"
  /\ ServiceCall(extract_text_from_image(cache, image_bytes, response),
                 image_bytes, response)
  /\ UNCHANGED <<target, source, input, calls, given_length, label_image, pc>>

CallService ==
  /\ Len(history) < MaxCalls
  /\ \E image_bytes \in Images, response \in Responses :
       ExtractTextFromImage(image_bytes, response)

NextOcr == CallService

SpecOcr == InitOcr /\ [][NextOcr]_vars

----------------------------------------------------------------------------
(* A long run of calls on one service: calls of one image and of the empty *)
(* image, and between them calls of other images, each a new one.          *)

\* most calls of the image followed and of the empty image
MaxTrackedCalls == 2

\* most calls of other images
MaxFillers == 101

TrackedImages == {<<>>, <<1>>}

CacheResponses ==
  { Response(None, Annotations_a), Response(None, <<>>),
    Response(Status("quota exceeded"), <<>>) }

\* how many of the calls so far were of the images followed
TrackedCalls == Len(SelectSeq(history, LAMBDA h : h.image \in TrackedImages))

TrackedCall ==
  /\ TrackedCalls < MaxTrackedCalls
  /\ \E image_bytes \in TrackedImages, response \in CacheResponses :
       ExtractTextFromImage(image_bytes, response)

\* the next image not yet seen, its text found
FillerCall ==
  /\ TrackedCalls >= 1
  /\ TrackedCalls < MaxTrackedCalls
  /\ Len(history) - 1 < MaxFillers
  /\ ExtractTextFromImage(<<Len(history) + 1>>, Response(None, Annotations_a))

NextCache == TrackedCall \/ FillerCall

SpecCache == InitOcr /\ [][NextCache]_vars

----------------------------------------------------------------------------
(* The /verify handler of src/main.py on one service: requests one after   *)
(* the other, each going through the handler's statements in their order.  *)

\* most calls of the service by the handler
MaxRequests == 2

\* an UploadFile with what label_image.read() gives
UploadFile(content) == [kind |-> "file", content |-> content]

Uploads == {None} \cup {UploadFile(content) : content \in Images}

\* the form of a request: nothing declared, or a brand and an abv
Forms ==
  {NoInput,
   [brand_name |-> <<"4", "5">>, product_type |-> <<>>, abv |-> <<"4", "5">>,
    volume |-> <<>>]}

\* what the backend answers to the handler's call: as before, or a label
HandlerResponses == Responses \cup {Response(None, <<Sample_WarningLabel>>)}

\* results_section(error=message)
ErrorFragment(message) == [kind |-> "error", error |-> message]

\* results_section(content=verification_results_detail(verification_results))
ResultsFragment(verification_results) ==
  [kind |-> "content", results |-> verification_results]

\* a test for None only, which lets an empty text through
NoTextDetected_none_only(ocr_text) == ocr_text.kind = "none"

\* line 349: not ocr_text, of a None or of a str
NoTextDetected(ocr_text) == ocr_text.kind = "none" \/ ocr_text.text = <<>>

\* a request arrives with its file and its form
Request ==
  /\ pc \in {"idle", "done"}
  /\ Len(history) < MaxRequests
  /\ \E file \in Uploads, form \in Forms :
       /\ label_image' = file
       /\ input' = form
  /\ op' = "verify"
  /\ pc' = "label_image"
  /\ result' = None
  /\ calls' = <<>>
  /\ source' = <<>>
  /\ image' = None
  /\ UNCHANGED <<target, given_length, cache, backend, history>>

\* lines 335-336
CheckLabelImage ==
  /\ pc = "label_image"
  /\ IF label_image.kind = "none"
     THEN /\ result' = ErrorFragment(<<"Please upload a label image.">>)
          /\ pc' = "done"
     ELSE /\ pc' = "content"
          /\ UNCHANGED result
  /\ UNCHANGED <<target, source, input, op, calls, given_length, label_image, image,
                 cache, backend, history>>

\* lines 338-340
ReadContent ==
  /\ pc = "content"
  /\ image' = label_image.content
  /\ IF label_image.content = <<>>
     THEN /\ result' = ErrorFragment(<<"Uploaded file was empty.">>)
          /\ pc' = "done"
     ELSE /\ pc' = "ocr"
          /\ UNCHANGED result
  /\ UNCHANGED <<target, source, input, op, calls, given_length, label_image, cache,
                 backend, history>>

\* lines 342-345: the call in the try; result holds what it returned or raised
CallOcr ==
  /\ pc = "ocr"
  /\ \E response \in HandlerResponses :
       ServiceCall(extract_text_from_image(cache, image, response), image, response)
  /\ calls' = Append(calls, "extract_text_from_image")
  /\ pc' = "ocr_text"
  /\ UNCHANGED <<target, source, input, op, given_length, label_image>>

\* lines 346-350: the except clause, then the test of ocr_text
CheckOcrText ==
  /\ pc = "ocr_text"
  /\ IF Raised(result)
     THEN /\ result' = ErrorFragment(<<"OCR failed: ">> \o result.message)
          /\ pc' = "done"
          /\ UNCHANGED source
     ELSE IF NoTextDetected(result)
     THEN /\ result' = ErrorFragment(<<"No text detected in the uploaded image.">>)
          /\ pc' = "done"
          /\ UNCHANGED source
     ELSE /\ source' = result.text
          /\ pc' = "verify_all"
          /\ UNCHANGED result
  /\ UNCHANGED <<target, input, op, calls, given_length, label_image, image, cache,
                 backend, history>>

\* lines 352-361: the engine, outside any try
CallVerifyAll ==
  /\ pc = "verify_all"
  /\ calls' = Append(calls, "verify_all")
  /\ result' = Let(verify_all(input, source),
                   LAMBDA r : IF Raised(r) THEN r ELSE ResultsFragment(r))
  /\ pc' = "done"
  /\ UNCHANGED <<target, source, input, op, given_length, label_image, image, cache,
                 backend, history>>

NextHandler ==
  \/ Request
  \/ CheckLabelImage
  \/ ReadContent
  \/ CallOcr
  \/ CheckOcrText
  \/ CallVerifyAll

SpecHandler == InitOcr /\ [][NextHandler]_vars

----------------------------------------------------------------------------
(* The claims.                                                             *)

\* the comment is the plain text s
CommentIs(r, s) == Len(r.comment) = 1 /\ r.comment[1] = s

\* the comment starts with the text s
CommentStarts(r, s) == r.comment[1] = s

Called == op # "idle"

\* C1: every call of a strategy or of the cascade returns a well-formed
\* VerificationResult (match a boolean, expected the target given, a
\* non-empty comment); none raises.
C1_NeverRaises ==
  Called =>
    /\ Returned(result)
    /\ result.match \in BOOLEAN
    /\ result.expected = target
    /\ Len(result.comment) > 0

\* C2: verify_all returns a mapping whose keys are exactly brand_name,
\* product_type, abv, volume and warning, for every input and OCR text.
C2_FiveKeys ==
  op = "verify_all" =>
    /\ result.kind = "mapping"
    /\ DOMAIN result.entries = {"brand_name", "product_type", "abv", "volume", "warning"}

\* C3: normalising a normalised text changes nothing.
C3_Idempotent == op = "normalize_text" => normalize_text(result) = result

\* the words of a text: its maximal runs of characters that are neither
\* whitespace nor punctuation of the class, in lower case
Words(text) == Split(SubPunct(ToLower(text)))

\* C4: normalize_text returns the words of its input, in lower case, joined
\* by single spaces: no upper-case letter, no punctuation of the class, no
\* whitespace but single spaces between words, none leading or trailing;
\* the empty string gives the empty string.
C4_SingleSpaced ==
  op = "normalize_text" =>
    /\ \A i \in 1..Len(result) :
         /\ ~IsUpper(result[i])
         /\ ~IsPunct(result[i])
         /\ IsSpace(result[i]) => result[i] = " " /\ 1 < i /\ i < Len(result)
         /\ IsSpace(result[i]) /\ i < Len(result) => ~IsSpace(result[i + 1])
    /\ result = Join(Words(source))
    /\ source = <<>> => result = <<>>

\* C5: with an empty target or an empty source, each strategy and the cascade
\* return match = false with the comment "Target text is empty", and the
\* cascade calls no strategy.
C5_EmptyNeverMatches ==
  Called /\ (target = <<>> \/ source = <<>>) =>
    /\ Returned(result)
    /\ ~result.match
    /\ CommentIs(result, "Target text is empty")
    /\ op = "check_matches_cascade" => calls = <<>>

C5_Witness ==
  /\ op = "check_matches_cascade"
  /\ target # <<>>
  /\ source = <<>>
  /\ Returned(result)
  /\ ~result.match

\* C6: in the mapping verify_all returns, the result of every declared field
\* that is the empty string has match = false and the comment "Target text is
\* empty".
C6_EmptyFieldDiagnosed ==
  op = "verify_all" /\ result.kind = "mapping" =>
    \A f \in {"brand_name", "product_type", "abv", "volume"} :
      input[f] = <<>> =>
        /\ ~result.entries[f].match
        /\ CommentIs(result.entries[f], "Target text is empty")

\* s is a prefix of t
IsPrefix(s, t) == Len(s) <= Len(t) /\ s = SubSeq(t, 1, Len(s))

\* C7: the cascade calls Exact, Normalized, Fuzzy in that order and stops at
\* the first match: if Exact matches the comment is "Exact match" and nothing
\* else was called; if Exact fails and Normalized matches the comment is
\* "Normalized text match" and Fuzzy was not called; a "Fuzzy match" comment
\* comes only after Exact and Normalized both failed.
C7_CascadeOrder ==
  op = "check_matches_cascade" /\ target # <<>> /\ source # <<>> =>
    LET exact == check_exact(target, source)
        normalized == check_normalized(target, source)
    IN /\ calls # <<>> /\ IsPrefix(calls, <<"check_exact", "check_normalized", "check_fuzzy">>)
       /\ Returned(exact) /\ exact.match =>
            /\ Returned(result) /\ result.match /\ CommentIs(result, "Exact match")
            /\ calls = <<"check_exact">>
       /\ Returned(exact) /\ ~exact.match /\ Returned(normalized) /\ normalized.match =>
            /\ Returned(result) /\ result.match
            /\ CommentIs(result, "Normalized text match")
            /\ calls = <<"check_exact", "check_normalized">>
       /\ Returned(result) /\ CommentStarts(result, "Fuzzy match: '") =>
            /\ Returned(exact) /\ ~exact.match
            /\ Returned(normalized) /\ ~normalized.match
            /\ calls = <<"check_exact", "check_normalized", "check_fuzzy">>

C7_Witness ==
  /\ op = "check_matches_cascade"
  /\ Returned(result)
  /\ CommentStarts(result, "Fuzzy match: '")
  /\ calls = <<"check_exact", "check_normalized", "check_fuzzy">>

\* C8: a result the cascade returns with match = true names the strategy that
\* matched; one with match = false says "Target text is empty" or is the
\* result of check_fuzzy itself, "No match. Closest text: ..."; the plain
\* "No match" of Exact and Normalized is never returned.
C8_SelfConsistent ==
  op = "check_matches_cascade" /\ Returned(result) =>
    /\ result.match =>
         \/ CommentIs(result, "Exact match")
         \/ CommentIs(result, "Normalized text match")
         \/ CommentStarts(result, "Fuzzy match: '") /\ Len(result.comment) > 1
    /\ ~result.match =>
         \/ CommentIs(result, "Target text is empty") /\ (target = <<>> \/ source = <<>>)
         \/ /\ CommentStarts(result, "No match. Closest text: '")
            /\ Len(result.comment) > 1
            /\ result = check_fuzzy(target, source)
    /\ ~CommentIs(result, "No match")

C8_Witness ==
  /\ op = "check_matches_cascade"
  /\ Returned(result)
  /\ ~result.match
  /\ CommentStarts(result, "No match. Closest text: '")

\* the runs of k consecutive tokens, joined by single spaces, for every k
\* within one of n that the tokens allow, the run of all tokens included
TokenRuns(tokens, n) ==
  UNION { { Join(SubSeq(tokens, i, i + k - 1)) : i \in 1..(Len(tokens) - k + 1) } :
            k \in {k \in (n - 1)..(n + 1) : 1 <= k /\ k <= Len(tokens)} }

\* fuzz.ratio(a, b) >= 92, unrounded
RatioAtLeast92(a, b) == 200 * Lcs(a, b) >= 92 * (Len(a) + Len(b))

\* C9: when Exact and Normalized fail and some run of tokens of the
\* normalised source, of a token count within one of the target's, has a
\* similarity ratio of at least 92 with the normalised target, the cascade
\* returns match = true with a "Fuzzy match" comment.
C9_FuzzyRecovers ==
  op = "check_matches_cascade" /\ target # <<>> /\ source # <<>> =>
    LET exact == check_exact(target, source)
        normalized == check_normalized(target, source)
        target_norm == normalize_text(target)
        tokens == Split(normalize_text(source))
    IN /\ Returned(exact) /\ ~exact.match
       /\ Returned(normalized) /\ ~normalized.match
       /\ \E run \in TokenRuns(tokens, Len(Split(target_norm))) :
            RatioAtLeast92(target_norm, run)
       => Returned(result) /\ result.match /\ CommentStarts(result, "Fuzzy match: '")

\* C10: check_fuzzy on a non-empty target and source returns the first
\* window of the highest score with that score, rounded to one decimal, and
\* match = true exactly if the rounded score is at least 92.0: "Fuzzy match:
\* ..." if so, "No match. Closest text: ..." if not.
C10_FuzzyBest ==
  op = "check_fuzzy" /\ target # <<>> /\ source # <<>> =>
    /\ Returned(result)
    /\ Len(result.comment) = 5
    /\ LET target_norm == normalize_text(target)
           windows == substrings_by_similar_token_length(
                        normalize_text(source), Len(Split(target_norm)))
           best_text == result.comment[2]
           best_ratio == result.comment[4]
       IN /\ \E i \in 1..Len(windows) :
               /\ windows[i] = best_text
               /\ RatioTenths(target_norm, windows[i]) = best_ratio
               /\ \A j \in 1..Len(windows) :
                    RatioTenths(target_norm, windows[j]) <= best_ratio
               /\ \A j \in 1..(i - 1) :
                    RatioTenths(target_norm, windows[j]) < best_ratio
          /\ result.match = (best_ratio >= 920)
          /\ CommentStarts(result, IF result.match THEN "Fuzzy match: '"
                                   ELSE "No match. Closest text: '")

\* t occurs in s, character for character
Contains(t, s) ==
  \E j \in 0..(Len(s) - Len(t)) : SubSeq(s, j + 1, j + Len(t)) = t

\* t occurs in s, character for character, after the start of s or a
\* whitespace character and before the end of s or a whitespace character
Occurs(t, s) ==
  \E j \in 0..(Len(s) - Len(t)) :
    /\ SubSeq(s, j + 1, j + Len(t)) = t
    /\ j = 0 \/ IsSpace(s[j])
    /\ j + Len(t) = Len(s) \/ IsSpace(s[j + Len(t) + 1])

Matched(r) == Returned(r) /\ r.match

\* C11: verify_abv(v, ocr) returns match = true when "v%" stands in the OCR
\* text between whitespace (as printed, or in the normalised forms of both),
\* and never returns match = true when v is in the OCR text and "v%" is not
\* (neither as printed nor in the normalised forms).
C11_AbvNeedsPercent ==
  op = "verify_abv" /\ target # <<>> /\ source # <<>> =>
    /\ \/ Occurs(target \o <<"%">>, source)
       \/ Occurs(normalize_text(target \o <<"%">>), normalize_text(source))
       => Matched(result)
    /\ /\ Contains(target, source)
       /\ ~Contains(target \o <<"%">>, source)
       /\ ~Contains(normalize_text(target \o <<"%">>), normalize_text(source))
       => ~Matched(result)

Digits == {"0", "1", "2", "3", "4", "5", "6", "7", "8", "9"}

\* a token that is a number: digits, with decimal points or without
IsNumber(token) ==
  /\ \E i \in 1..Len(token) : token[i] \in Digits
  /\ \A i \in 1..Len(token) : token[i] \in Digits \cup {"."}

\* the tokens run stands in the tokens of a text, one after the other
IsRun(run, tokens) ==
  \E i \in 0..(Len(tokens) - Len(run)) : SubSeq(tokens, i + 1, i + Len(run)) = run

\* the verdict C12 asks of verify_volume for declared tokens and label
\* tokens, both in lower case
VolumeVerdictHolds(r, declared, printed) ==
  /\ IsRun(declared, printed) => Matched(r)
  /\ IsNumber(declared[1]) /\ (\A k \in 1..Len(printed) : printed[k] # declared[1])
       => ~Matched(r)

\* C12: verify_volume returns match = true when the declared volume is on the
\* label but for letter case and spacing, and never match = true when the
\* number the declared volume starts with is no token of the label (the label
\* prints a number with a digit less, more or other, or with a decimal point
\* elsewhere).
C12_VolumeRejectsPartialNumbers ==
  op = "verify_volume" /\ Split(target) # <<>> /\ source # <<>> =>
    VolumeVerdictHolds(result, Split(ToLower(target)), Split(ToLower(source)))

\* the result C13 asks of verify_gov_warning for the results subs of the
\* cascade on the three sections
WarningCollated(r, sections, subs) ==
  /\ Returned(r)
  /\ \A i \in 1..Len(subs) : Returned(subs[i])
  /\ r.match = (\A i \in 1..Len(subs) : subs[i].match)
  /\ r.match => CommentIs(r, "Full government warning found")
  /\ ~r.match =>
       /\ Len(r.comment) = 2
       /\ r.comment[1] = "Sections not found: "
       /\ r.comment[2] =
            LET missing == SelectSeq(Indices(subs), LAMBDA i : ~subs[i].match)
            IN JoinLines([k \in 1..Len(missing) |-> sections[missing[k]]])

\* C13: verify_gov_warning returns a result whose match is the conjunction of
\* the cascade's verdicts on the title, the pregnancy clause and the driving
\* and health clause, each against the whole OCR text; its comment is "Full
\* government warning found" if all matched, else "Sections not found: " and
\* the sections not matched, in their wording and order, joined by newlines.
C13_WarningSections ==
  op = "verify_gov_warning" =>
    WarningCollated(result,
      <<title_text, pregnancy_text, drive_health_text>>,
      <<check_matches_cascade(title_text, source),
        check_matches_cascade(pregnancy_text, source),
        check_matches_cascade(drive_health_text, source)>>)

\* C14: in the mapping verify_all returns, the expected text of brand_name,
\* product_type, abv and volume is the text declared for the field, as
\* declared, and that of warning is the three sections joined by newlines.
C14_ExpectedEchoes ==
  op = "verify_all" /\ result.kind = "mapping" =>
    /\ \A f \in {"brand_name", "product_type", "abv", "volume"} :
         result.entries[f].expected = input[f]
    /\ result.entries["warning"].expected =
         JoinLines(<<title_text, pregnancy_text, drive_health_text>>)

\* C16: check_exact on a non-empty target and source returns match = true
\* exactly if the target stands in the source character for character, each
\* character of the target for itself, after the start of the source or a
\* whitespace character and before its end or a whitespace character.
C16_ExactLiteral ==
  op = "check_exact" /\ target # <<>> /\ source # <<>> =>
    /\ Returned(result)
    /\ result.match <=> Occurs(target, source)

\* the window sizes C17 names for a length T and N items, in order
ClaimedSizes(T, N) == SelectSeq(<<T - 1, T, T + 1>>, LAMBDA k : 0 < k /\ k < N)

\* how many windows of N items have the sizes before the j-th
RECURSIVE WindowsBefore(_, _, _)
WindowsBefore(sizes, j, N) ==
  IF j <= 1 THEN 0
  ELSE WindowsBefore(sizes, j - 1, N) + (N - sizes[j - 1] + 1)

\* the sequence r holds, size after size, the window Window(i, k) of every
\* size k and every start i from 1 to N - k + 1, in that order, and no other
WindowsAsClaimed(r, sizes, N, Window(_, _)) ==
  /\ Len(r) = WindowsBefore(sizes, Len(sizes) + 1, N)
  /\ \A j \in 1..Len(sizes) :
       \A i \in 1..(N - sizes[j] + 1) :
         r[WindowsBefore(sizes, j, N) + i] = Window(i, sizes[j])

\* C17: for a length T and a string of N tokens the token window generator
\* returns, for each size k of T-1, T, T+1 in that order with 0 < k < N, the
\* N-k+1 runs of k tokens joined by single spaces, from the first start to the
\* last, each once, and nothing for the other sizes; the character window
\* generator returns the same over the characters of the string.
C17_Windows ==
  /\ op = "substrings_by_similar_token_length" =>
       WindowsAsClaimed(result, ClaimedSizes(given_length, Len(Split(source))),
                        Len(Split(source)),
                        LAMBDA i, k : Join(SubSeq(Split(source), i, i + k - 1)))
  /\ op = "substrings_by_similar_character_length" =>
       WindowsAsClaimed(result, ClaimedSizes(given_length, Len(source)), Len(source),
                        LAMBDA i, k : SubSeq(source, i, i + k - 1))

C17_Witness ==
  /\ op = "substrings_by_similar_token_length"
  /\ Len(Split(source)) = 3
  /\ given_length = 2
  /\ Len(result) = 5

\* the last call of the service
LastCall == history[Len(history)]

ServiceCalled == op = "extract_text_from_image" /\ Len(history) > 0

\* the outcome a response without an error message must have by C15, given
\* the text to return for the first annotation
AnswerAsClaimed(call, text) ==
  /\ HasErrorMessage(call.response) =>
       /\ Raised(call.outcome)
       /\ call.outcome.exc = "RuntimeError"
       /\ call.outcome.message[Len(call.outcome.message)] = call.response.error.message
  /\ ~HasErrorMessage(call.response) /\ call.response.text_annotations = <<>> =>
       call.outcome.kind = "none"
  /\ ~HasErrorMessage(call.response) /\ call.response.text_annotations # <<>> =>
       call.outcome.kind = "text" /\ call.outcome.text = text

\* C15 as stated: a call that gets a response from the backend raises
\* RuntimeError with the backend's message if the response has an error
\* message, returns None if it has none and no annotations, and else returns
\* the description of the first annotation.
C15_ErrorIsNotNoText ==
  ServiceCalled /\ LastCall.called /\ LastCall.response.kind = "response" =>
    AnswerAsClaimed(LastCall, LastCall.response.text_annotations[1])

\* C15 amended: the same, the text returned being the description of the
\* first annotation without its leading and trailing whitespace.
C15_ErrorIsNotNoText_Stripped ==
  ServiceCalled /\ LastCall.called /\ LastCall.response.kind = "response" =>
    AnswerAsClaimed(LastCall, Strip(LastCall.response.text_annotations[1]))

C15_Witness ==
  /\ ServiceCalled
  /\ LastCall.called
  /\ LastCall.response.kind = "response"
  /\ ~HasErrorMessage(LastCall.response)
  /\ LastCall.response.text_annotations # <<>>
  /\ Strip(LastCall.response.text_annotations[1]) # LastCall.response.text_annotations[1]
  /\ result.kind = "text"
  /\ result.text = Strip(LastCall.response.text_annotations[1])

\* the calls before the last one that returned and had its bytes
ReturnedBefore(h) ==
  {j \in 1..(Len(h) - 1) : h[j].image = h[Len(h)].image /\ ~Raised(h[j].outcome)}

\* the latest of them
LatestReturned(h) ==
  CHOOSE j \in ReturnedBefore(h) : \A k \in ReturnedBefore(h) : k <= j

\* the other images of calls that returned, after the j-th call and before
\* the last
UsedSince(h, j) ==
  {h[k].image : k \in {k \in (j + 1)..(Len(h) - 1) : ~Raised(h[k].outcome)}}
    \ {h[Len(h)].image}

\* an earlier call with the bytes of the last call returned, and fewer than
\* 100 other images were used since the latest such call
StillCached(h) ==
  /\ ReturnedBefore(h) # {}
  /\ Cardinality(UsedSince(h, LatestReturned(h))) < 100

\* C19: a call with the bytes of an earlier call that returned, fewer than
\* 100 other images used since, returns what that call returned without
\* calling the backend; every other call of non-empty bytes calls the
\* backend, whatever other bytes were cached and whatever the bytes raised
\* before; a call of empty bytes returns None without calling the backend.
C19_CacheByBytes ==
  ServiceCalled =>
    /\ StillCached(history) =>
         /\ ~LastCall.called
         /\ LastCall.outcome = history[LatestReturned(history)].outcome
    /\ ~StillCached(history) /\ LastCall.image # <<>> => LastCall.called
    /\ LastCall.image = <<>> => ~LastCall.called /\ LastCall.outcome.kind = "none"
    /\ backend = Len(SelectSeq(history, LAMBDA h : h.called))
    /\ result = LastCall.outcome

\* the image followed is called again after 100 other images and found gone
C19_Witness ==
  /\ ServiceCalled
  /\ LastCall.image = <<1>>
  /\ ReturnedBefore(history) # {}
  /\ Cardinality(UsedSince(history, LatestReturned(history))) = 100
  /\ LastCall.called

\* whether the handler's request called the function
HandlerCalled(name) == \E i \in 1..Len(calls) : calls[i] = name

\* the handler answered the error fragment with the message
AnsweredError(message) == result.kind = "error" /\ result.error = message

(* C18: in the /verify handler the engine is invoked only after every      *)
(* upstream check has passed, in this order: no image, 'Please upload a    *)
(* label image.'; empty content, 'Uploaded file was empty.'; the OCR call  *)
(* raised, 'OCR failed: <exc>'; the OCR returned None or an empty text,    *)
(* 'No text detected in the uploaded image.'.  Each returns an error       *)
(* fragment and stops: verify_all is never called with a missing, failed   *)
(* or empty OCR text, and the service is never called without non-empty    *)
(* image bytes.                                                            *)
C18_EngineAfterChecks ==
  op = "verify" =>
    /\ HandlerCalled("extract_text_from_image") =>
         /\ label_image.kind = "file"
         /\ Len(label_image.content) > 0
         /\ LastCall.image = label_image.content
    /\ HandlerCalled("verify_all") =>
         /\ calls = <<"extract_text_from_image", "verify_all">>
         /\ LastCall.outcome.kind = "text"
         /\ Len(LastCall.outcome.text) > 0
         /\ source = LastCall.outcome.text
    /\ pc = "done" =>
         IF label_image.kind = "none"
         THEN calls = <<>> /\ AnsweredError(<<"Please upload a label image.">>)
         ELSE IF label_image.content = <<>>
         THEN calls = <<>> /\ AnsweredError(<<"Uploaded file was empty.">>)
         ELSE IF ~HandlerCalled("extract_text_from_image") THEN FALSE
         ELSE IF Raised(LastCall.outcome)
         THEN /\ calls = <<"extract_text_from_image">>
              /\ AnsweredError(<<"OCR failed: ">> \o LastCall.outcome.message)
         ELSE IF LastCall.outcome.kind = "none" \/ LastCall.outcome.text = <<>>
         THEN /\ calls = <<"extract_text_from_image">>
              /\ AnsweredError(<<"No text detected in the uploaded image.">>)
         ELSE /\ calls = <<"extract_text_from_image", "verify_all">>
              /\ result.kind # "error"

\* a request answered by the engine's results, after an earlier request was
\* stopped by the service's error
C18_Witness ==
  /\ op = "verify"
  /\ pc = "done"
  /\ HandlerCalled("verify_all")
  /\ result.kind = "content"
  /\ Len(history) = 2
  /\ Raised(history[1].outcome)

====
